---- MODULE Spec2Model ----
(***************************************************************************)
(* Model of the notebook upload service of src/main.py:                    *)
(*   - GitHubDeployer: construction (_create_index_html,                   *)
(*     _ensure_gh_pages_branch) and deploy_content, one step per file      *)
(*     system or repository call;                                          *)
(*   - upload_notebook: the POST handler, run by Procs (Flask serves       *)
(*     requests on threads, so handlers interleave at their calls);        *)
(*   - NotebookProcessor.generate_explanation and _identify_ml_components. *)
(* File names, paths and cell sources are sequences of tokens, so that     *)
(* str.replace, str.lower and the `in` test are computed, not assumed.     *)
(* File contents are sequences of strings; <<>> stands for "no file".      *)
(***************************************************************************)
EXTENDS Naturals, Sequences, FiniteSets, TLC

(***************************** bounds **************************************)
MaxRequests == 2

\* request handler threads of the Flask development server
Procs == {"h1", "h2"}

(************************ names, paths, contents ***************************)
NoFile       == << >>
NotebookDoc  == <<"notebook">>
JunkDoc      == <<"junk">>
IndexDoc     == <<"index_doc">>
MainIndexDoc == <<"main_index">>
Fallback     == "Unable to generate explanation due to API error."
GenTexts     == {"generated text"}

Payloads == {NotebookDoc, JunkDoc}

\* file names a client can send (request.files['notebook'].filename)
RawNames ==
    { << >>,
      <<"a", ".ipynb">>,
      <<"index", ".ipynb">>,
      <<"a", ".json">>,
      <<"..", "/", "a", ".ipynb">> }

Replace(s, old, new) == [i \in 1..Len(s) |-> IF s[i] = old THEN new ELSE s[i]]

Join(dir, name) == dir \o <<"/">> \o name

\* werkzeug's secure_filename: path separators and dot segments are dropped
SecureFilename(raw) == SelectSeq(raw, LAMBDA t : t \notin {"/", "..", "\\"})

UploadDir   == <<"uploaded_notebooks">>
TemplateDir == <<"templates">>
IndexName   == <<"index", ".html">>

TemplatePath   == Join(TemplateDir, IndexName)
LocalIndexPath == Join(UploadDir, IndexName)

\* upload_notebook: filepath = os.path.join(UPLOAD_FOLDER, filename)
UploadPath(filename) == Join(UploadDir, filename)

\* deploy_content: os.path.join(upload_dir, notebook_name.replace(".ipynb", ".html"))
HtmlPath(notebook_name) == Join(UploadDir, Replace(notebook_name, ".ipynb", ".html"))

\* deploy_content: repo_path = file_path.replace('\\', '/')
RepoPath(file_path) == Replace(file_path, "\\", "/")

FileNames   == {SecureFilename(r) : r \in RawNames \ {<< >>}}
LocalPaths  == {UploadPath(n) : n \in FileNames} \cup {HtmlPath(n) : n \in FileNames}
                  \cup {TemplatePath, LocalIndexPath}
RemotePaths == {RepoPath(HtmlPath(n)) : n \in FileNames} \cup {IndexName}

EmptyLocal  == [x \in LocalPaths |-> NoFile]
EmptyTree   == [x \in RemotePaths |-> NoFile]

\* validate_notebook / extract_notebook_content: nbformat.read succeeds
Parseable(c) == c = NotebookDoc

\* upload_notebook: the page built from the two explanations
Render(overview, technical) == <<"<html>", overview, technical>>

\* the revision token of a file is the git blob hash of its content
BlobSha(c) == <<"sha">> \o c

(************************** inference request ******************************)
HFOutcomes == {"ok", "transport_error", "http_error", "bad_body"}

\* query_hf_api: the generated text, or the fallback on any exception
QueryHfApi(outcome, text) == IF outcome = "ok" THEN text ELSE Fallback

\* what the endpoint did with a request, as the caller's log would tell it
Answered(outcome) == IF outcome = "ok" THEN "answered" ELSE "failed"

(******************************* state *************************************)
VARIABLES
    ctor,       \* GitHubDeployer.__init__: "create_index", "ensure_branch", "ready", "failed"
    branch,     \* gh-pages exists on the remote
    remote,     \* files of gh-pages: path -> content
    local,      \* local file system: path -> content
    pc,         \* per handler: position in upload_notebook / deploy_content
    req,        \* per handler: locals of the request being served
    served,     \* number of POSTs received
    lastOk,     \* the last deploy_content that returned, while nobody else has written
    nb,         \* _identify_ml_components: the notebook's cells
    ci,         \* _identify_ml_components: index of the next cell of the loop
    ml,         \* _identify_ml_components: ml_components
    xi,         \* extract_notebook_content: index of the next cell of its loop
    processed_content   \* extract_notebook_content: code_cells, markdown_cells, outputs

vars == <<ctor, branch, remote, local, pc, req, served, lastOk, nb, ci, ml,
          xi, processed_content>>

\* input, resp: what the client sent and was answered; filename .. index_content:
\* locals of upload_notebook and deploy_content; hf: outcome of each inference
\* request; last: outcome of the latest repository call; failed: a repository
\* call of this request failed (a missing file is not a failure); nhf, nwr:
\* inference requests and repository writes issued by this request
NoReq == [input |-> "none", resp |-> "none", filename |-> << >>,
          overview |-> "", technical |-> "", hf |-> << >>,
          html |-> NoFile, sha |-> NoFile, index_content |-> NoFile,
          last |-> "none", failed |-> FALSE, nhf |-> 0, nwr |-> 0]

None == [proc |-> "none"]

\* gh-pages as an earlier run left it
InitTrees ==
    { EmptyTree,
      [EmptyTree EXCEPT ![IndexName] = IndexDoc,
                        ![RepoPath(HtmlPath(<<"a", ".ipynb">>))] = Render(Fallback, Fallback)] }

\* the tip of main
MainTrees == { EmptyTree, [EmptyTree EXCEPT ![IndexName] = MainIndexDoc] }

\* ml_components = {'preprocessing': [], 'model_type': None, 'training': False, ...}
NewComponents == [preprocessing |-> << >>, model_type |-> "None",
                  training |-> FALSE, evaluation |-> FALSE]

\* no notebook is being classified
ClassifierIdle ==
    /\ nb = << >>
    /\ ci = 1
    /\ ml = NewComponents

\* processed_content = {'code_cells': [], 'markdown_cells': [], 'outputs': [], ...}
NewContent == [code_cells |-> << >>, markdown_cells |-> << >>, outputs |-> << >>]

\* no notebook is being extracted
ExtractorIdle ==
    /\ xi = 1
    /\ processed_content = NewContent

Init ==
    /\ ctor = "create_index"
    /\ branch \in BOOLEAN
    /\ remote \in IF branch THEN InitTrees ELSE {EmptyTree}
    /\ local = EmptyLocal
    /\ pc = [p \in Procs |-> "idle"]
    /\ req = [p \in Procs |-> NoReq]
    /\ served = 0
    /\ lastOk = None
    /\ ClassifierIdle
    /\ ExtractorIdle

(************************ GitHubDeployer.__init__ **************************)
\* _create_index_html: write the template if missing, then copy it to the upload dir
CreateIndexHtml(fs) ==
    LET withTemplate == IF fs[TemplatePath] = NoFile
                        THEN [fs EXCEPT ![TemplatePath] = IndexDoc]
                        ELSE fs
    IN  [withTemplate EXCEPT ![LocalIndexPath] = withTemplate[TemplatePath]]

CtorCreateIndex ==
    /\ ctor = "create_index"
    /\ local' = CreateIndexHtml(local)
    /\ ctor' = "ensure_branch"
    /\ UNCHANGED <<branch, remote, pc, req, served, lastOk, nb, ci, ml, xi, processed_content>>

\* repo.create_git_ref("refs/heads/gh-pages", sha=master.commit.sha): the new
\* branch holds the files of main's tip
CreateGitRef(tipTree) == tipTree

\* _ensure_gh_pages_branch: get_branch, and on GithubException create the ref
\* from main's tip and call _create_index_html again
CtorEnsureBranch ==
    /\ ctor = "ensure_branch"
    /\ \E fault \in {"none", "github"}, tipTree \in MainTrees :
         IF branch /\ fault = "none"
         THEN /\ ctor' = "ready"
              /\ UNCHANGED <<branch, remote, local>>
         ELSE IF ~branch
              THEN /\ branch' = TRUE
                   /\ remote' = CreateGitRef(tipTree)
                   /\ local' = CreateIndexHtml(local)
                   /\ ctor' = "ready"
              ELSE \* create_git_ref on an existing ref is rejected: __init__ raises
                   /\ ctor' = "failed"
                   /\ UNCHANGED <<branch, remote, local>>
    /\ UNCHANGED <<pc, req, served, lastOk, nb, ci, ml, xi, processed_content>>

(*************************** upload_notebook *******************************)
\* the handler returns (or raises): its locals die, the answer stays
Respond(r, code) == [NoReq EXCEPT !.input = r.input, !.resp = code]

Goto(p, label) == pc' = [pc EXCEPT ![p] = label]

\* handler p writes a file: lastOk is dropped when it is another handler's
OthersWrite(p) ==
    lastOk' = IF lastOk # None /\ lastOk.proc # p THEN None ELSE lastOk

\* POST /: the two 400 exits, else secure_filename and file.save
Receive(p) ==
    /\ ctor = "ready"
    /\ pc[p] = "idle"
    /\ served < MaxRequests
    /\ served' = served + 1
    /\ \E hasField \in BOOLEAN, raw \in RawNames, payload \in Payloads :
         \/ /\ ~hasField
            /\ req' = [req EXCEPT ![p] =
                          Respond([NoReq EXCEPT !.input = "no_field"], "400 No file uploaded")]
            /\ UNCHANGED <<pc, local, lastOk>>
         \/ /\ hasField
            /\ raw = << >>
            /\ req' = [req EXCEPT ![p] =
                          Respond([NoReq EXCEPT !.input = "empty_name"], "400 No selected file")]
            /\ UNCHANGED <<pc, local, lastOk>>
         \/ /\ hasField
            /\ raw # << >>
            /\ LET filename == SecureFilename(raw)
               IN  /\ local' = [local EXCEPT ![UploadPath(filename)] = payload]
                   /\ req' = [req EXCEPT ![p] =
                                 [NoReq EXCEPT !.input = "file", !.filename = filename]]
                   /\ Goto(p, "validate")
                   /\ lastOk' = IF lastOk # None /\ lastOk.proc = p /\ lastOk.name = filename
                                THEN lastOk ELSE None
    /\ UNCHANGED <<ctor, branch, remote, nb, ci, ml, xi, processed_content>>

\* Validate, were validate_notebook to accept every file
ValidateAcceptsAll(p) ==
    /\ pc[p] = "validate"
    /\ Goto(p, "extract")
    /\ UNCHANGED <<ctor, branch, remote, local, served, lastOk, nb, ci, ml, req, xi, processed_content>>

\* validate_notebook(filepath): reads the saved file
Validate(p) ==
    /\ pc[p] = "validate"
    /\ IF Parseable(local[UploadPath(req[p].filename)])
       THEN /\ Goto(p, "extract")
            /\ UNCHANGED req
       ELSE /\ req' = [req EXCEPT ![p] = Respond(@, "400 Invalid notebook")]
            /\ Goto(p, "idle")
    /\ UNCHANGED <<ctor, branch, remote, local, served, lastOk, nb, ci, ml, xi, processed_content>>

\* extract_notebook_content(filepath): reads and parses the file again
Extract(p) ==
    /\ pc[p] = "extract"
    /\ IF Parseable(local[UploadPath(req[p].filename)])
       THEN /\ Goto(p, "overview")
            /\ UNCHANGED req
       ELSE /\ req' = [req EXCEPT ![p] = Respond(@, "500")]
            /\ Goto(p, "idle")
    /\ UNCHANGED <<ctor, branch, remote, local, served, lastOk, nb, ci, ml, xi, processed_content>>

\* generate_explanation: overview = query_hf_api(overview_prompt)
Overview(p) ==
    /\ pc[p] = "overview"
    /\ \E outcome \in HFOutcomes, text \in GenTexts :
         req' = [req EXCEPT ![p] = [@ EXCEPT !.overview = QueryHfApi(outcome, text),
                                             !.hf = Append(@, Answered(outcome)),
                                             !.nhf = @ + 1]]
    /\ Goto(p, "technical")
    /\ UNCHANGED <<ctor, branch, remote, local, served, lastOk, nb, ci, ml, xi, processed_content>>

\* Technical, were a failed overview to end generate_explanation early
TechnicalUnlessOverviewFailed(p) ==
    /\ pc[p] = "technical"
    /\ \E outcome \in HFOutcomes, text \in GenTexts :
         req' = [req EXCEPT ![p] =
                   IF @.overview = Fallback
                   THEN [@ EXCEPT !.technical = Fallback, !.hf = Append(@, "answered")]
                   ELSE [@ EXCEPT !.technical = QueryHfApi(outcome, text),
                                  !.hf = Append(@, Answered(outcome)),
                                  !.nhf = @ + 1]]
    /\ Goto(p, "deploy")
    /\ UNCHANGED <<ctor, branch, remote, local, served, lastOk, nb, ci, ml, xi, processed_content>>

\* generate_explanation: technical_details = query_hf_api(technical_prompt)
Technical(p) ==
    /\ pc[p] = "technical"
    /\ \E outcome \in HFOutcomes, text \in GenTexts :
         req' = [req EXCEPT ![p] = [@ EXCEPT !.technical = QueryHfApi(outcome, text),
                                             !.hf = Append(@, Answered(outcome)),
                                             !.nhf = @ + 1]]
    /\ Goto(p, "deploy")
    /\ UNCHANGED <<ctor, branch, remote, local, served, lastOk, nb, ci, ml, xi, processed_content>>

(********************* GitHubDeployer.deploy_content ***********************)
\* outcome of a repository call besides its normal answer: a GithubException
\* for an HTTP error status, or another exception (connection, timeout)
Faults == {"none", "github", "other"}

\* repo.update_file(path, content, sha): accepted when the token is current
UpdateAccepted(tree, path, sha) == tree[path] # NoFile /\ BlobSha(tree[path]) = sha

\* UpdateFile, were an update to add to the file instead of replacing it
UpdateFileAppends(tree, path, content) == [tree EXCEPT ![path] = @ \o content]

UpdateFile(tree, path, content) == [tree EXCEPT ![path] = content]

\* repo.create_file(path, content): accepted when no file is at the path
CreateAccepted(tree, path) == tree[path] = NoFile

CreateFile(tree, path, content) == [tree EXCEPT ![path] = content]

\* the outer `except Exception: ... raise`, answered 500 by Flask
Raise(p) ==
    /\ req' = [req EXCEPT ![p] = Respond(@, "500")]
    /\ Goto(p, "idle")
    /\ lastOk' = IF lastOk # None /\ lastOk.proc = p THEN None ELSE lastOk

\* try: repo.get_contents(path, ref="gh-pages") ... except GithubException
GetStep(p, path, onFound, onExcept) ==
    /\ \E fault \in Faults :
         CASE fault = "other"  -> Raise(p)
           [] fault = "github" -> /\ req' = [req EXCEPT ![p] = [@ EXCEPT !.last = "get_error",
                                                                         !.failed = TRUE]]
                                  /\ Goto(p, onExcept)
                                  /\ UNCHANGED lastOk
           [] fault = "none"   ->
                /\ IF remote[path] # NoFile
                   THEN /\ req' = [req EXCEPT ![p] = [@ EXCEPT !.sha = BlobSha(remote[path]),
                                                               !.last = "found"]]
                        /\ Goto(p, onFound)
                   ELSE /\ req' = [req EXCEPT ![p] = [@ EXCEPT !.last = "not_found"]]
                        /\ Goto(p, onExcept)
                /\ UNCHANGED lastOk
    /\ UNCHANGED <<ctor, branch, remote, local, served, nb, ci, ml, xi, processed_content>>

\* repo.update_file(..., sha=file.sha) inside the same try: a GithubException
\* (a stale token included) is caught by the except clause that creates the file
UpdateStep(p, path, content, onDone, onExcept) ==
    /\ \E fault \in Faults :
         CASE fault = "other"  -> Raise(p) /\ UNCHANGED remote
           [] fault = "github" -> /\ req' = [req EXCEPT ![p] =
                                               [@ EXCEPT !.last = "update_error", !.failed = TRUE,
                                                         !.sha = NoFile, !.nwr = @ + 1]]
                                  /\ Goto(p, onExcept)
                                  /\ UNCHANGED <<remote, lastOk>>
           [] fault = "none"   ->
                IF UpdateAccepted(remote, path, req[p].sha)
                THEN /\ remote' = UpdateFile(remote, path, content)
                     /\ req' = [req EXCEPT ![p] = [@ EXCEPT !.last = "ok", !.sha = NoFile,
                                                            !.nwr = @ + 1]]
                     /\ Goto(p, onDone)
                     /\ OthersWrite(p)
                ELSE /\ req' = [req EXCEPT ![p] = [@ EXCEPT !.last = "stale", !.failed = TRUE,
                                                            !.sha = NoFile, !.nwr = @ + 1]]
                     /\ Goto(p, onExcept)
                     /\ UNCHANGED <<remote, lastOk>>
    /\ UNCHANGED <<ctor, branch, local, served, nb, ci, ml, xi, processed_content>>

\* except GithubException: repo.create_file(...); its exceptions reach the
\* outer `except Exception: ... raise`
CreateStep(p, path, content, onDone) ==
    /\ \E fault \in Faults :
         IF fault = "none" /\ CreateAccepted(remote, path)
         THEN /\ remote' = CreateFile(remote, path, content)
              /\ req' = [req EXCEPT ![p] = [@ EXCEPT !.last = "ok", !.nwr = @ + 1]]
              /\ Goto(p, onDone)
              /\ OthersWrite(p)
         ELSE /\ Raise(p)
              /\ UNCHANGED remote
    /\ UNCHANGED <<ctor, branch, local, served, nb, ci, ml, xi, processed_content>>

\* file_path = ...; open(file_path, 'w').write(content)
DeployLocalWrite(p) ==
    /\ pc[p] = "deploy"
    /\ LET html == Render(req[p].overview, req[p].technical)
       IN  /\ local' = [local EXCEPT ![HtmlPath(req[p].filename)] = html]
           /\ req' = [req EXCEPT ![p] = [@ EXCEPT !.html = html, !.overview = "",
                                                  !.technical = "", !.hf = << >>]]
           /\ lastOk' = IF lastOk # None /\ lastOk.proc = p /\ lastOk.html = html
                        THEN lastOk ELSE None
    /\ Goto(p, "page_get")
    /\ UNCHANGED <<ctor, branch, remote, served, nb, ci, ml, xi, processed_content>>

PagePath(p) == RepoPath(HtmlPath(req[p].filename))

PageGetContents(p) ==
    /\ pc[p] = "page_get"
    /\ GetStep(p, PagePath(p), "page_update", "page_create")

PageUpdateFile(p) ==
    /\ pc[p] = "page_update"
    /\ UpdateStep(p, PagePath(p), req[p].html, "index_read", "page_create")

PageCreateFile(p) ==
    /\ pc[p] = "page_create"
    /\ CreateStep(p, PagePath(p), req[p].html, "index_read")

\* index_content = open(os.path.join(upload_dir, 'index.html')).read()
IndexRead(p) ==
    /\ pc[p] = "index_read"
    /\ IF local[LocalIndexPath] = NoFile
       THEN Raise(p)
       ELSE /\ req' = [req EXCEPT ![p] = [@ EXCEPT !.index_content = local[LocalIndexPath],
                                                   !.last = "none"]]
            /\ Goto(p, "index_get")
            /\ UNCHANGED lastOk
    /\ UNCHANGED <<ctor, branch, remote, local, served, nb, ci, ml, xi, processed_content>>

IndexGetContents(p) ==
    /\ pc[p] = "index_get"
    /\ GetStep(p, IndexName, "index_update", "index_create")

IndexUpdateFile(p) ==
    /\ pc[p] = "index_update"
    /\ UpdateStep(p, IndexName, req[p].index_content, "done", "index_create")

IndexCreateFile(p) ==
    /\ pc[p] = "index_create"
    /\ CreateStep(p, IndexName, req[p].index_content, "done")

\* deploy_content has returned:
\* return 'Notebook processed and deployed successfully!', 200
Return200(p) ==
    /\ pc[p] = "done"
    /\ req' = [req EXCEPT ![p] = Respond(@, "200")]
    /\ Goto(p, "idle")
    /\ lastOk' = IF lastOk # None /\ lastOk.proc = p
                 THEN [lastOk EXCEPT !.count = 2]
                 ELSE [proc |-> p, name |-> req[p].filename, html |-> req[p].html,
                       tree |-> remote, count |-> 1]
    /\ UNCHANGED <<ctor, branch, remote, local, served, nb, ci, ml, xi, processed_content>>

Handler(p) ==
    \/ Receive(p)
    \/ Validate(p)
    \/ Extract(p)
    \/ Overview(p)
    \/ Technical(p)
    \/ DeployLocalWrite(p)
    \/ PageGetContents(p)
    \/ PageUpdateFile(p)
    \/ PageCreateFile(p)
    \/ IndexRead(p)
    \/ IndexGetContents(p)
    \/ IndexUpdateFile(p)
    \/ IndexCreateFile(p)
    \/ Return200(p)

\* the service with its handler threads
Next ==
    \/ CtorCreateIndex
    \/ CtorEnsureBranch
    \/ \E p \in Procs : Handler(p)

Spec == Init /\ [][Next]_vars

\* the service when requests arrive one after the other
NextSeq ==
    \/ CtorCreateIndex
    \/ CtorEnsureBranch
    \/ Handler("h1")

SpecSeq == Init /\ [][NextSeq]_vars

(************* NotebookProcessor._identify_ml_components *******************)
\* A cell source is a sequence of pieces of text; a keyword is found in it when
\* its pieces occur in a row, as the `in` test finds a substring.
MaxCells == 3

Sources ==
    { <<"import", "Logistic", "Regression">>,
      <<"logistic", "_", "regression">>,
      <<"Random", "_", "Forest">>,
      <<"import", "tensorflow">>,
      <<"neural", "_", "network">>,
      <<"random", "_", "forest", "logistic", "_", "regression">>,
      <<"model", ".", "fit">>,
      <<"my", "Model", ".", "fit">>,
      <<"accuracy", "_", "score">>,
      <<"classification", "_", "report">>,
      <<"Scale", "model", ".", "predict">> }

Cells ==
    [cell_type : {"code"}, source : Sources]
        \cup [cell_type : {"markdown", "raw"}, source : {<<"model", ".", "fit">>}]
        \cup [cell_type : {"markdown"},
              source : {<<"logistic", "_", "regression">>, <<"accuracy", "_", "score">>}]

Notebooks == UNION {[1..n -> Cells] : n \in 0..MaxCells}

\* str.lower on one piece of text
LowerPiece(t) ==
    CASE t = "Logistic"   -> "logistic"
      [] t = "Regression" -> "regression"
      [] t = "Random"     -> "random"
      [] t = "Forest"     -> "forest"
      [] t = "Model"      -> "model"
      [] t = "Scale"      -> "scale"
      [] OTHER            -> t

\* cell.source.lower()
Lower(text) == [i \in 1..Len(text) |-> LowerPiece(text[i])]

\* keyword in text
Contains(text, keyword) ==
    \E i \in 1..Len(text) :
        /\ i + Len(keyword) - 1 <= Len(text)
        /\ SubSeq(text, i, i + Len(keyword) - 1) = keyword

\* if any(keyword in cell_text for keyword in ['scale', 'normalize', 'preprocess'])
Preprocessing(cell_text, source, found) ==
    IF \E k \in {<<"scale">>, <<"normalize">>, <<"preprocess">>} : Contains(cell_text, k)
    THEN Append(found, source)
    ELSE found

\* ModelType, were the first matching cell to win
ModelTypeFirstWins(cell_text, current) ==
    IF current # "None" THEN current
    ELSE IF Contains(cell_text, <<"logistic", "_", "regression">>) THEN "Logistic Regression"
    ELSE IF Contains(cell_text, <<"random", "_", "forest">>) THEN "Random Forest"
    ELSE IF \/ Contains(cell_text, <<"neural", "_", "network">>)
            \/ Contains(cell_text, <<"tensorflow">>) THEN "Neural Network"
    ELSE current

\* the if/elif chain that sets ml_components['model_type']
ModelType(cell_text, current) ==
    IF Contains(cell_text, <<"logistic", "_", "regression">>) THEN "Logistic Regression"
    ELSE IF Contains(cell_text, <<"random", "_", "forest">>) THEN "Random Forest"
    ELSE IF \/ Contains(cell_text, <<"neural", "_", "network">>)
            \/ Contains(cell_text, <<"tensorflow">>) THEN "Neural Network"
    ELSE current

\* Training, were the flag assigned from each cell
TrainingOfThisCell(cell_text, current) == Contains(cell_text, <<"model", ".", "fit">>)

\* if 'model.fit' in cell_text: ml_components['training'] = True
Training(cell_text, current) ==
    IF Contains(cell_text, <<"model", ".", "fit">>) THEN TRUE ELSE current

\* if 'accuracy_score' in cell_text or 'classification_report' in cell_text
Evaluation(cell_text, current) ==
    IF \/ Contains(cell_text, <<"accuracy", "_", "score">>)
       \/ Contains(cell_text, <<"classification", "_", "report">>)
    THEN TRUE ELSE current

\* the body of `for cell in notebook.cells`
IdentifyCell(components, cell) ==
    IF cell.cell_type = "code"
    THEN LET cell_text == Lower(cell.source)
         IN  [preprocessing |-> Preprocessing(cell_text, cell.source, components.preprocessing),
              model_type    |-> ModelType(cell_text, components.model_type),
              training      |-> Training(cell_text, components.training),
              evaluation    |-> Evaluation(cell_text, components.evaluation)]
    ELSE components

\* one turn of the loop; when ci passes the last cell ml is what is returned
IdentifyStep ==
    /\ ci <= Len(nb)
    /\ ml' = IdentifyCell(ml, nb[ci])
    /\ ci' = ci + 1
    /\ UNCHANGED <<ctor, branch, remote, local, pc, req, served, lastOk, nb,
                   xi, processed_content>>

InitClassify ==
    /\ ctor = "create_index"
    /\ branch = FALSE
    /\ remote = EmptyTree
    /\ local = EmptyLocal
    /\ pc = [p \in Procs |-> "idle"]
    /\ req = [p \in Procs |-> NoReq]
    /\ served = 0
    /\ lastOk = None
    /\ nb \in Notebooks
    /\ ci = 1
    /\ ml = NewComponents
    /\ ExtractorIdle

SpecClassify == InitClassify /\ [][IdentifyStep]_vars

(********************** extract_notebook_content ***************************)
\* an entry of cell.outputs
Out(type, data) == [output_type |-> type, data |-> data]

\* None, as an entry of processed_content['outputs']
NoOutput == Out("None", "")

\* the cells nbformat.read can hand over: code cells carry an outputs list (one,
\* read from a file that fails validation, does not), other cells have none
ExtractCells ==
    { [cell_type |-> "code", source |-> <<"model", ".", "fit">>, outputs |-> << >>],
      [cell_type |-> "code", source |-> <<"model", ".", "fit">>,
       outputs |-> <<Out("error", "e1")>>],
      [cell_type |-> "code", source |-> <<"import", "tensorflow">>,
       outputs |-> <<Out("error", "e1"), Out("stream", "s1"), Out("execute_result", "r1")>>],
      [cell_type |-> "code", source |-> <<"import", "tensorflow">>,
       outputs |-> <<Out("display_data", "d1"), Out("stream", "s2")>>],
      [cell_type |-> "code", source |-> <<"accuracy", "_", "score">>,
       outputs |-> <<Out("execute_result", "r1")>>],
      [cell_type |-> "code", source |-> <<"accuracy", "_", "score">>],
      [cell_type |-> "markdown", source |-> <<"model", ".", "fit">>],
      [cell_type |-> "markdown", source |-> <<"title">>],
      [cell_type |-> "raw", source |-> <<"model", ".", "fit">>] }

ExtractNotebooks == UNION {[1..n -> ExtractCells] : n \in 0..MaxCells}

\* for output in cell.outputs: if output.output_type in [...]: return output
RECURSIVE FirstOutput(_, _)
FirstOutput(outputs, i) ==
    IF i > Len(outputs) THEN NoOutput
    ELSE IF outputs[i].output_type \in {"stream", "display_data", "execute_result"}
         THEN outputs[i]
         ELSE FirstOutput(outputs, i + 1)

\* _process_cell_output
ProcessCellOutput(cell) ==
    IF "outputs" \in DOMAIN cell /\ cell.outputs # << >>
    THEN FirstOutput(cell.outputs, 1)
    ELSE NoOutput

\* ExtractCell, were a cell without a usable output to add nothing to outputs
ExtractCellDropsNone(content, cell) ==
    IF cell.cell_type = "code"
    THEN [content EXCEPT !.code_cells = Append(@, cell.source),
                         !.outputs = IF ProcessCellOutput(cell) = NoOutput THEN @
                                     ELSE Append(@, ProcessCellOutput(cell))]
    ELSE IF cell.cell_type = "markdown"
    THEN [content EXCEPT !.markdown_cells = Append(@, cell.source)]
    ELSE content

\* the body of `for cell in nb.cells`
ExtractCell(content, cell) ==
    IF cell.cell_type = "code"
    THEN [content EXCEPT !.code_cells = Append(@, cell.source),
                         !.outputs = Append(@, ProcessCellOutput(cell))]
    ELSE IF cell.cell_type = "markdown"
    THEN [content EXCEPT !.markdown_cells = Append(@, cell.source)]
    ELSE content

\* one turn of the loop; it starts once _identify_ml_components(nb) has returned
\* (ml is then processed_content['ml_components'])
ExtractStep ==
    /\ ci = Len(nb) + 1
    /\ xi <= Len(nb)
    /\ processed_content' = ExtractCell(processed_content, nb[xi])
    /\ xi' = xi + 1
    /\ UNCHANGED <<ctor, branch, remote, local, pc, req, served, lastOk, nb, ci, ml>>

InitExtract ==
    /\ ctor = "create_index"
    /\ branch = FALSE
    /\ remote = EmptyTree
    /\ local = EmptyLocal
    /\ pc = [p \in Procs |-> "idle"]
    /\ req = [p \in Procs |-> NoReq]
    /\ served = 0
    /\ lastOk = None
    /\ nb \in ExtractNotebooks
    /\ ci = 1
    /\ ml = NewComponents
    /\ ExtractorIdle

NextExtract == IdentifyStep \/ ExtractStep

SpecExtract == InitExtract /\ [][NextExtract]_vars

(***************************************************************************)
(* Properties of the publisher and of the upload endpoint.                 *)
(***************************************************************************)
RemoteTier == {"page_get", "page_update", "page_create",
               "index_read", "index_get", "index_update", "index_create", "done"}

Rejections == {"400 No file uploaded", "400 No selected file", "400 Invalid notebook"}

\* C1: deploy_content reads before it writes: the page update carries the token
\* just read from a found file, a read that finds nothing leads to a create, and
\* after an update rejected for a stale token no further write is attempted for
\* the path (the publish ends with the error).
C1_ReadBeforeWrite ==
    \A p \in Procs :
        /\ pc[p] = "page_update" => req[p].last = "found" /\ req[p].sha # NoFile
        /\ req[p].last = "not_found" => pc[p] \in {"page_create", "index_create"}
        /\ ~(pc[p] = "page_create" /\ req[p].last = "stale")

\* C2: publishing the same page again, with no other write in between, leaves
\* the remote branch as the first publish left it.
C2_RepublishIdempotent ==
    (lastOk # None /\ lastOk.count = 2) => remote = lastOk.tree

C2_Witness ==
    /\ lastOk # None
    /\ lastOk.count = 2
    /\ remote[RepoPath(HtmlPath(lastOk.name))] = lastOk.html

\* C3: the step that creates gh-pages leaves index.html on it with the index
\* document, and the branch, once there, stays.
C3_BranchSeeded ==
    [][ /\ (~branch /\ branch') => remote'[IndexName] = IndexDoc
        /\ branch => branch' ]_vars

\* C4: when deploy_content has returned, index.html on gh-pages holds the index
\* document.
C4_IndexStaysIndex ==
    \A p \in Procs : pc[p] = "done" => remote[IndexName] = IndexDoc

\* C5: a failed repository call of deploy_content is raised (deploy_content does
\* not return normally, so no 200 follows), and through the remote tier the
\* local HTML copy holds the published content.
C5_RemoteFailureRaised ==
    \A p \in Procs :
        /\ pc[p] = "done" => ~req[p].failed
        /\ pc[p] \in RemoteTier => local[HtmlPath(req[p].filename)] = req[p].html

\* C8: each explanation is the fallback exactly when its own request failed and
\* the generated text otherwise, and both requests are made whatever the
\* outcome of the first.
C8_IndependentRequests ==
    \A p \in Procs :
        /\ pc[p] = "technical" =>
              /\ req[p].nhf = 1
              /\ req[p].overview = Fallback <=> req[p].hf[1] = "failed"
        /\ pc[p] = "deploy" =>
              /\ req[p].nhf = 2
              /\ req[p].overview = Fallback <=> req[p].hf[1] = "failed"
              /\ req[p].technical = Fallback <=> req[p].hf[2] = "failed"
              /\ req[p].hf[1] = "answered" => req[p].overview \in GenTexts
              /\ req[p].hf[2] = "answered" => req[p].technical \in GenTexts

C8_Witness ==
    \E p \in Procs :
        /\ pc[p] = "deploy"
        /\ req[p].hf = <<"failed", "answered">>
        /\ req[p].overview = Fallback
        /\ req[p].technical \in GenTexts

\* C9: a POST answered 400 has made no inference request and no repository
\* write; without a file field or with an empty file name it is answered before
\* anything is saved; a saved file that does not parse is answered 400 by the
\* validation, before the extractor, the requester and the publisher.
C9_RejectedDoesNothing ==
    [][ /\ (served' # served /\ pc' = pc) =>
              /\ local' = local /\ remote' = remote
              /\ \A p \in Procs : req'[p].resp \in {"none", "200", "500"} => req'[p] = req[p]
        /\ \A p \in Procs :
              /\ req'[p].input = "no_field" => req'[p].resp = "400 No file uploaded"
              /\ req'[p].input = "empty_name" => req'[p].resp = "400 No selected file"
              /\ (pc[p] = "validate" /\ pc'[p] # "validate"
                    /\ ~Parseable(local[UploadPath(req[p].filename)])) =>
                     /\ pc'[p] = "idle"
                     /\ req'[p].resp = "400 Invalid notebook"
              /\ (req'[p].resp \in Rejections /\ req'[p] # req[p]) =>
                     /\ pc[p] \in {"idle", "validate"}
                     /\ pc'[p] = "idle"
                     /\ req[p].nhf = 0 /\ req[p].nwr = 0
                     /\ remote' = remote
                     /\ pc[p] = "idle" => local' = local ]_vars

C9_Witness ==
    \E p \in Procs :
        /\ pc[p] = "idle"
        /\ req[p].resp = "400 Invalid notebook"
        /\ \E n \in FileNames : local[UploadPath(n)] = JunkDoc

\* a file name with its extension replaced by .html
Extensions == {".ipynb", ".json", ".html"}

ReplaceExtension(name) ==
    IF Len(name) > 1 /\ name[Len(name)] \in Extensions
    THEN SubSeq(name, 1, Len(name) - 1) \o <<".html">>
    ELSE name \o <<".html">>

\* C10: the local tier writes the page to <name with the extension replaced by
\* .html> in the upload directory, a file other than the uploaded notebook,
\* which keeps its content.
C10_LocalHtmlBesideNotebook ==
    \A p \in Procs :
        pc[p] = "page_get" =>
            /\ local[Join(UploadDir, ReplaceExtension(req[p].filename))] = req[p].html
            /\ Join(UploadDir, ReplaceExtension(req[p].filename)) # UploadPath(req[p].filename)
            /\ local[UploadPath(req[p].filename)] = NotebookDoc

\* C12: two deploy_content calls for the same page both hold the token of the
\* page as it is; once the update of one is accepted (and changes the page) the
\* token of the other is stale, so only one of the two updates can succeed; the
\* update rejected for its stale token is raised to the caller at once (500,
\* no further repository call), and the calls of the loser leave the page as
\* the accepted update wrote it.
C12_StaleUpdateRaised ==
    /\ [][\A p \in Procs : \A q \in Procs \ {p} :
            (/\ pc[p] = "page_update" /\ pc[q] = "page_update"
             /\ PagePath(p) = PagePath(q)
             /\ req[p].sha = req[q].sha
             /\ UpdateAccepted(remote, PagePath(p), req[p].sha)
             /\ req[p].html # remote[PagePath(p)]
             /\ pc'[p] = "index_read")
            => /\ remote'[PagePath(p)] = req[p].html
               /\ ~UpdateAccepted(remote', PagePath(q), req'[q].sha)]_vars
    /\ [][\A q \in Procs :
            (/\ pc[q] = "page_update"
             /\ ~UpdateAccepted(remote, PagePath(q), req[q].sha)
             /\ req'[q].last = "stale")
            => /\ pc'[q] = "idle"
               /\ req'[q].resp = "500"
               /\ remote' = remote]_vars
    /\ [][\A q \in Procs :
            (req[q].last = "stale" /\ pc'[q] # pc[q]) => remote' = remote]_vars

(***************************************************************************)
(* Properties of the classifier.                                           *)
(***************************************************************************)
Returned == ci = Len(nb) + 1

CodeCells(n) == {i \in 1..n : nb[i].cell_type = "code"}

\* the label of a cell text under the rules, in their order of precedence
RuleLabel(text) ==
    CASE Contains(text, <<"logistic", "_", "regression">>) -> "Logistic Regression"
      [] Contains(text, <<"random", "_", "forest">>)       -> "Random Forest"
      [] Contains(text, <<"neural", "_", "network">>)      -> "Neural Network"
      [] Contains(text, <<"tensorflow">>)                  -> "Neural Network"
      [] OTHER                                             -> "None"

MatchingCells == {i \in CodeCells(Len(nb)) : RuleLabel(Lower(nb[i].source)) # "None"}

LastOf(S) == CHOOSE i \in S : \A j \in S : j <= i

\* C6: the model_type returned is the label of the last code cell that matches
\* a model-type rule, and is unset when no code cell matches.
C6_LastMatchingCellWins ==
    Returned =>
        ml.model_type = IF MatchingCells = {} THEN "None"
                        ELSE RuleLabel(Lower(nb[LastOf(MatchingCells)].source))

C6_Witness ==
    /\ Returned
    /\ Cardinality(MatchingCells) >= 2
    /\ \E i \in MatchingCells :
           RuleLabel(Lower(nb[i].source)) # RuleLabel(Lower(nb[LastOf(MatchingCells)].source))
    /\ ml.model_type = RuleLabel(Lower(nb[LastOf(MatchingCells)].source))

\* C7 as stated: training is true exactly when a code cell's source contains
\* "model.fit", evaluation exactly when one contains "accuracy_score" or
\* "classification_report", and neither flag is reset.
C7_FlagsOfSource ==
    /\ [](Returned =>
            /\ ml.training <=>
                  \E i \in CodeCells(Len(nb)) : Contains(nb[i].source, <<"model", ".", "fit">>)
            /\ ml.evaluation <=>
                  \E i \in CodeCells(Len(nb)) :
                      \/ Contains(nb[i].source, <<"accuracy", "_", "score">>)
                      \/ Contains(nb[i].source, <<"classification", "_", "report">>))
    /\ [][(ml.training => ml'.training) /\ (ml.evaluation => ml'.evaluation)]_vars

\* C7 amended: the same, the keywords being looked for in the lower-cased source
\* of the code cells scanned so far.
C7_FlagsOfLoweredSource ==
    /\ [](/\ ml.training <=>
                \E i \in CodeCells(ci - 1) :
                    Contains(Lower(nb[i].source), <<"model", ".", "fit">>)
          /\ ml.evaluation <=>
                \E i \in CodeCells(ci - 1) :
                    \/ Contains(Lower(nb[i].source), <<"accuracy", "_", "score">>)
                    \/ Contains(Lower(nb[i].source), <<"classification", "_", "report">>))
    /\ [][(ml.training => ml'.training) /\ (ml.evaluation => ml'.evaluation)]_vars

C7_Witness ==
    /\ Returned
    /\ Len(nb) >= 2
    /\ nb[1].cell_type = "code"
    /\ Contains(Lower(nb[1].source), <<"model", ".", "fit">>)
    /\ ~Contains(nb[1].source, <<"model", ".", "fit">>)
    /\ \A i \in 2..Len(nb) : ~Contains(Lower(nb[i].source), <<"model", ".", "fit">>)
    /\ ml.training
    /\ ~ml.evaluation

(***************************************************************************)
(* Properties of the extractor.                                            *)
(***************************************************************************)
Extracted == ci = Len(nb) + 1 /\ xi = Len(nb) + 1

\* the cells of one type among the first n, in notebook order
CellsOfType(type, n) == SelectSeq(SubSeq(nb, 1, n), LAMBDA c : c.cell_type = type)

Recognised(cell) ==
    IF "outputs" \in DOMAIN cell
    THEN {k \in 1..Len(cell.outputs) :
              cell.outputs[k].output_type \in {"stream", "display_data", "execute_result"}}
    ELSE {}

\* the first output of a recognised type, none when there is no such output
FirstRecognised(cell) ==
    IF Recognised(cell) = {} THEN NoOutput
    ELSE cell.outputs[CHOOSE k \in Recognised(cell) : \A j \in Recognised(cell) : k <= j]

\* C11: at every turn of the loop code_cells holds the sources of the code cells
\* visited so far in notebook order, outputs holds for each of them its first
\* output of type stream, display_data or execute_result (none if it has no
\* such output), markdown_cells holds the sources of the markdown cells visited,
\* cells of other types add nothing; so outputs is as long as code_cells and
\* entry i of outputs belongs to entry i of code_cells.
C11_CellsRoutedByType ==
    LET code     == CellsOfType("code", xi - 1)
        markdown == CellsOfType("markdown", xi - 1)
    IN  /\ processed_content.code_cells = [k \in 1..Len(code) |-> code[k].source]
        /\ processed_content.outputs = [k \in 1..Len(code) |-> FirstRecognised(code[k])]
        /\ processed_content.markdown_cells = [k \in 1..Len(markdown) |-> markdown[k].source]
        /\ Len(processed_content.outputs) = Len(processed_content.code_cells)
        /\ xi <= Len(nb) + 1

\* a notebook that has a code cell whose first output is an error and whose
\* second is a stream, a code cell with no usable output and a raw cell
C11_Witness ==
    /\ Extracted
    /\ Len(nb) = 3
    /\ \E i \in 1..3 : nb[i].cell_type = "raw"
    /\ Len(processed_content.code_cells) = 2
    /\ processed_content.outputs = <<Out("stream", "s1"), NoOutput>>
    /\ processed_content.markdown_cells = << >>

====
